---- MODULE Spec2Model ----
(***************************************************************************)
(* A model of the Canasta rules engine: Game (base/game.py), the Discard   *)
(* and Put actions (base/actions) and the GameRunner registry.             *)
(* The containers (Card, CardSeries, Hand, Deck, Board, Team), the Action  *)
(* base class, the players and the Draw / pick-up-pile actions are not     *)
(* part of the sources at hand; they are modelled from the specification.  *)
(***************************************************************************)
EXTENDS Integers, Sequences, FiniteSets, TLC

\* ------------------------------------------------------------------ bounds
\* Number of API calls (initialize, reset, step) explored from construction.
MaxCalls == 5
\* Number of API calls explored when following whole rounds of turns.
MaxTurnCalls == 10
\* Number of API calls explored from each synthetic board position.
MaxBoardCalls == 1
\* Number of API calls explored from each position set up for the scores.
MaxScoreCalls == 1
\* Number of API calls explored from each position a game is reset in.
MaxResetCalls == 2
\* Number of games started in one run of the registry.
MaxGames == 3
\* Scaled-down Constants.GAME_ID_LENGTH.
GAME_ID_LENGTH == 1
\* Number of proposals rejected by validate within one run.
MaxRejected == 1
\* Number of reset_game calls within one run.
MaxResets == 1
\* Number of initialize_game calls within one run.
MaxInits == 2
\* Scaled-down Constants.NUM_CARDS_IN_STARTING_HAND and NUM_CARDS_IN_PILE.
NUM_CARDS_IN_STARTING_HAND == 3
NUM_CARDS_IN_PILE == 1

\* --------------------------------------------------------------- constants
NUM_PLAYERS == 4
NUM_TEAMS == 2
MIN_SERIES_LENGTH == 3
MAX_WILDCARDS_IN_SERIES == 1
PILE_BONUS == 100


\* GamePhase (base/enums/game_phase.py)
DRAW_PHASE == "DRAW_PHASE"
ACTION_PHASE == "ACTION_PHASE"
PLAY_JOKER_PHASE == "PLAY_JOKER_PHASE"
END_TURN_PHASE == "END_TURN_PHASE"
NO_CARDS_PHASE == "NO_CARDS_PHASE"
NO_CARDS_END_TURN_PHASE == "NO_CARDS_END_TURN_PHASE"
FINISHED_PHASE == "FINISHED_PHASE"
GamePhase ==
  {DRAW_PHASE, ACTION_PHASE, PLAY_JOKER_PHASE, END_TURN_PHASE,
   NO_CARDS_PHASE, NO_CARDS_END_TURN_PHASE, FINISHED_PHASE}

\* ------------------------------------------------------------------- cards
\* A card is the number 10 * rank + suit; equal numbers are equal cards
\* (Card equality is by value).  Rank 0 is the joker, rank 2 the wildcard.
Rank(card) == card \div 10
is_joker(card) == Rank(card) = 0
is_wildcard(card) == Rank(card) = 2
JOKER == 0
\* The card values of the (scaled-down) deck; the double deck holds each twice.
CardValues == {51, 52, 53, 54, 61, 62, 63, 71, 72, 73, 81, 82, 83, 21, JOKER}

\* Card.get_score
get_score(card) ==
  IF is_joker(card) THEN 50 ELSE IF is_wildcard(card) THEN 20 ELSE 5

RECURSIVE SeqSum(_)
SeqSum(s) == IF s = <<>> THEN 0 ELSE Head(s) + SeqSum(Tail(s))

Range(s) == {s[i] : i \in 1..Len(s)}
Count(s, x) == Cardinality({i \in 1..Len(s) : s[i] = x})

\* `card in hand`: membership by value, whatever the number of copies.
Contains(cards, card) == \E i \in 1..Len(cards) : cards[i] = card

\* Hand.pop(card) on a hand that holds it: removes the first equal card.
RECURSIVE RemoveFirst(_, _)
RemoveFirst(cards, card) ==
  IF cards = <<>> THEN <<>>
  ELSE IF Head(cards) = card THEN Tail(cards)
  ELSE <<Head(cards)>> \o RemoveFirst(Tail(cards), card)

\* CardSeries
Naturals_(series) == {i \in 1..Len(series) : ~is_joker(series[i]) /\ ~is_wildcard(series[i])}
is_pure(series) == \A i \in 1..Len(series) : ~is_joker(series[i]) /\ ~is_wildcard(series[i])
is_valid(series) ==
  /\ Len(series) >= MIN_SERIES_LENGTH
  /\ Len(series) - Cardinality(Naturals_(series)) <= MAX_WILDCARDS_IN_SERIES
  /\ \A i, j \in Naturals_(series) : Rank(series[i]) = Rank(series[j])
get_total_value(series) == SeqSum([i \in 1..Len(series) |-> get_score(series[i])])

\* ------------------------------------------------------------------- state
VARIABLES
  initialized,            \* Game.initialized
  keep_history,           \* Game.keep_history
  players,                \* Game.players: None, or player index -> [hand, team]
  teams,                  \* Game.teams: None, or team index -> [players, grabbed_pile]
  current_player_index,   \* None or 0..3
  current_team_index,     \* None or 0..1
  board,                  \* Game.board: None or the Board record
  history,                \* Game.history: the GameHistory entries
  last,                   \* the last API call and how it ended
  calls,                  \* API calls left to explore
  rejected,               \* rejected proposals left to explore
  resets,                 \* reset_game calls left to explore
  inits,                  \* initialize_game calls left to explore
  running_games,          \* GameRunner.running_games: game id -> Game object
  objects,                \* the number of Game objects constructed so far
  started,                \* the (id, game) pairs start_game returned, not ended
  got                     \* the last GameRunner call and what it returned

gameVars ==
  <<initialized, keep_history, players, teams, current_player_index,
    current_team_index, board, history>>
vars ==
  <<initialized, keep_history, players, teams, current_player_index,
    current_team_index, board, history, last, calls, rejected, resets, inits,
    running_games, objects, started, got>>
runnerVars == <<running_games, objects, started, got>>

\* An Optional value: None is the empty tuple, a present value x is <<x>>.
None == <<>>
Some(x) == <<x>>

\* ----------------------------------------------------------------- actions
NoCard == -1
DiscardCardAction(card) == [kind |-> "discard", card |-> card, series |-> <<>>]
PutAction(cards) == [kind |-> "put", card |-> NoCard, series |-> cards]
DrawAction == [kind |-> "draw", card |-> NoCard, series |-> <<>>]
PickupPileAction == [kind |-> "pickup_pile", card |-> NoCard, series |-> <<>>]
\* The None logged by initialize_game in place of an action.
NoAction == [kind |-> "None", card |-> NoCard, series |-> <<>>]

\* Board queries
RED == 0
BLUE == 1
TeamSeries(bd, team) == IF team = RED THEN bd.red_team_series ELSE bd.blue_team_series
get_series_for_player(bd, player) == TeamSeries(bd, player.team)
team_has_pure(bd, team) ==
  \E i \in 1..Len(TeamSeries(bd, team)) : is_pure(TeamSeries(bd, team)[i])
num_piles_remaining(bd) ==
  (IF bd.left_pile # <<>> THEN 1 ELSE 0) + (IF bd.right_pile # <<>> THEN 1 ELSE 0)
TeamPile(bd, team) == IF team = RED THEN bd.left_pile ELSE bd.right_pile

\* PutAction.will_create_pure
will_create_pure(series) == IF is_pure(series) THEN TRUE ELSE FALSE

\* Board.player_may_clear_hand(player, action): the team still has its pile
\* to pick up, or it has (or the action lays down) a pure series.
player_may_clear_hand(bd, tms, player, series) ==
  \/ ~tms[player.team].grabbed_pile /\ TeamPile(bd, player.team) # <<>>
  \/ team_has_pure(bd, player.team)
  \/ will_create_pure(series)

\* A DiscardCardAction.validate that forgets the phase.
DiscardValidate_AnyPhase(card, player, bd) ==
  IF ~Contains(player.hand, card) THEN FALSE ELSE TRUE

\* DiscardCardAction.validate
DiscardValidate(card, player, bd) ==
  IF bd.phase # ACTION_PHASE THEN FALSE
  ELSE IF ~Contains(player.hand, card) THEN FALSE
  ELSE TRUE

\* A PutAction.validate whose gate is off by one: it is consulted only when
\* the Put empties the hand.
PutValidate_GateOffByOne(series, player, bd, tms) ==
  IF bd.phase \notin {ACTION_PHASE, PLAY_JOKER_PHASE} THEN FALSE
  ELSE IF bd.phase = PLAY_JOKER_PHASE /\ ~(\E i \in 1..Len(series) : is_joker(series[i]))
    THEN FALSE
  ELSE IF Len(player.hand) <= Len(series)
          /\ ~player_may_clear_hand(bd, tms, player, series)
    THEN FALSE
  ELSE IF \E i \in 1..Len(series) : ~Contains(player.hand, series[i]) THEN FALSE
  ELSE IF ~is_valid(series) THEN FALSE
  ELSE TRUE

\* A PutAction.validate that never asks for a joker.
PutValidate_JokerNeverRequired(series, player, bd, tms) ==
  IF bd.phase \notin {ACTION_PHASE, PLAY_JOKER_PHASE} THEN FALSE
  ELSE IF Len(player.hand) <= Len(series) + 1
          /\ ~player_may_clear_hand(bd, tms, player, series)
    THEN FALSE
  ELSE IF \E i \in 1..Len(series) : ~Contains(player.hand, series[i]) THEN FALSE
  ELSE IF ~is_valid(series) THEN FALSE
  ELSE TRUE

\* PutAction.validate
PutValidate(series, player, bd, tms) ==
  IF bd.phase \notin {ACTION_PHASE, PLAY_JOKER_PHASE} THEN FALSE
  ELSE IF bd.phase = PLAY_JOKER_PHASE /\ ~(\E i \in 1..Len(series) : is_joker(series[i]))
    THEN FALSE
  ELSE IF Len(player.hand) <= Len(series) + 1
          /\ ~player_may_clear_hand(bd, tms, player, series)
    THEN FALSE
  ELSE IF \E i \in 1..Len(series) : ~Contains(player.hand, series[i]) THEN FALSE
  ELSE IF ~is_valid(series) THEN FALSE
  ELSE TRUE

\* DrawAction.validate: the draw phase, and a card to draw.
DrawValidate(player, bd) ==
  bd.phase = DRAW_PHASE /\ (bd.deck # <<>> \/ num_piles_remaining(bd) > 0)

\* PickupPileAction.validate: a player out of cards takes the team's pile.
PickupValidate(player, bd, tms) ==
  /\ bd.phase \in {NO_CARDS_PHASE, NO_CARDS_END_TURN_PHASE}
  /\ ~tms[player.team].grabbed_pile
  /\ TeamPile(bd, player.team) # <<>>

validate(a, player, bd, tms) ==
  CASE a.kind = "discard" -> DiscardValidate(a.card, player, bd)
    [] a.kind = "put" -> PutValidate(a.series, player, bd, tms)
    [] a.kind = "draw" -> DrawValidate(player, bd)
    [] OTHER -> PickupValidate(player, bd, tms)

\* ------------------------------------------------------- executing actions
\* A DiscardCardAction._execute that slides the card under the stack.
DiscardExecute_BuriesCard(card, player, bd) ==
  [player |-> [player EXCEPT !.hand = RemoveFirst(@, card)],
   board |-> [bd EXCEPT !.stack = <<card>> \o @],
   raised |-> FALSE]

\* DiscardCardAction._execute
DiscardExecute(card, player, bd) ==
  [player |-> [player EXCEPT !.hand = RemoveFirst(@, card)],
   board |-> [bd EXCEPT !.stack = Append(@, card)],
   raised |-> FALSE]

\* DiscardCardAction._target_phase
DiscardTargetPhase(player) ==
  IF player.hand = <<>> THEN NO_CARDS_END_TURN_PHASE ELSE END_TURN_PHASE

\* What Hand.pop does with a card the hand does not hold: it raises (as
\* list.remove does) or it returns nothing and leaves the hand alone.
PopMissing == {"raise", "ignore"}

\* The loop `for card in self.series: player.hand.pop(card)`.
RECURSIVE PopAll(_, _, _)
PopAll(hand, cards, pop_missing) ==
  IF cards = <<>> THEN [hand |-> hand, raised |-> FALSE]
  ELSE IF Contains(hand, Head(cards))
    THEN PopAll(RemoveFirst(hand, Head(cards)), Tail(cards), pop_missing)
  ELSE IF pop_missing = "ignore" THEN PopAll(hand, Tail(cards), pop_missing)
  ELSE [hand |-> hand, raised |-> TRUE]

\* PutAction._execute
PutExecute(series, player, bd, pop_missing) ==
  LET popped == PopAll(player.hand, series, pop_missing) IN
  [player |-> [player EXCEPT !.hand = popped.hand],
   board |-> IF popped.raised THEN bd
             ELSE IF player.team = RED
               THEN [bd EXCEPT !.red_team_series = Append(@, series)]
               ELSE [bd EXCEPT !.blue_team_series = Append(@, series)],
   raised |-> popped.raised]

\* A PutAction._target_phase that ends the turn of a player who keeps cards.
PutTargetPhase_EndsTurn(player) ==
  IF player.hand = <<>> THEN NO_CARDS_PHASE ELSE END_TURN_PHASE

\* PutAction._target_phase
PutTargetPhase(player) ==
  IF player.hand = <<>> THEN NO_CARDS_PHASE ELSE ACTION_PHASE

\* DrawAction._execute: the top card of the deck goes to the hand; an empty
\* deck is first replenished from a remaining pile.
DrawExecute(player, bd) ==
  LET fresh == IF bd.deck # <<>> THEN bd
               ELSE IF bd.left_pile # <<>>
                 THEN [bd EXCEPT !.deck = bd.left_pile, !.left_pile = <<>>]
                 ELSE [bd EXCEPT !.deck = bd.right_pile, !.right_pile = <<>>] IN
  [player |-> [player EXCEPT !.hand = Append(@, Head(fresh.deck))],
   board |-> [fresh EXCEPT !.deck = Tail(@)],
   raised |-> FALSE]

\* PickupPileAction._execute: the team's pile becomes the player's hand.
PickupExecute(player, bd) ==
  [player |-> [player EXCEPT !.hand = @ \o TeamPile(bd, player.team)],
   board |-> IF player.team = RED THEN [bd EXCEPT !.left_pile = <<>>]
             ELSE [bd EXCEPT !.right_pile = <<>>],
   raised |-> FALSE]

\* PickupPileAction._target_phase
PickupTargetPhase(bd) ==
  IF bd.phase = NO_CARDS_END_TURN_PHASE THEN END_TURN_PHASE ELSE ACTION_PHASE

\* Action._execute and Action._target_phase, dispatched on the action's kind.
Execute(a, player, bd, pop_missing) ==
  CASE a.kind = "discard" -> DiscardExecute(a.card, player, bd)
    [] a.kind = "put" -> PutExecute(a.series, player, bd, pop_missing)
    [] a.kind = "draw" -> DrawExecute(player, bd)
    [] OTHER -> PickupExecute(player, bd)

TargetPhase(a, player, bd) ==
  CASE a.kind = "discard" -> DiscardTargetPhase(player)
    [] a.kind = "put" -> PutTargetPhase(player)
    [] a.kind = "draw" -> ACTION_PHASE
    [] OTHER -> PickupTargetPhase(bd)

\* Player.play_single_step / Action.execute: the proposed action is validated;
\* a valid one is executed and the board's phase set to its target phase, an
\* invalid one is returned unexecuted.  An exception of _execute propagates.
PlayerStep(a, idx, pls, tms, bd, pop_missing) ==
  IF ~validate(a, pls[idx], bd, tms)
    THEN [players |-> pls, teams |-> tms, board |-> bd,
          valid |-> FALSE, is_executed |-> FALSE, raised |-> FALSE]
  ELSE
    LET r == Execute(a, pls[idx], bd, pop_missing)
        team == pls[idx].team IN
    IF r.raised
      THEN [players |-> [pls EXCEPT ![idx] = r.player], teams |-> tms,
            board |-> r.board,
            valid |-> TRUE, is_executed |-> FALSE, raised |-> TRUE]
      ELSE [players |-> [pls EXCEPT ![idx] = r.player],
            teams |-> IF a.kind = "pickup_pile"
                        THEN [tms EXCEPT ![team].grabbed_pile = TRUE] ELSE tms,
            board |-> [r.board EXCEPT !.phase = TargetPhase(a, r.player, bd)],
            valid |-> TRUE, is_executed |-> TRUE, raised |-> FALSE]

\* -------------------------------------------------------------------- Game
\* Game.is_finished: the loop over the players, in order, with its early return.
RECURSIVE PlayerIsOut(_, _, _, _)
PlayerIsOut(i, pls, tms, bd) ==
  IF i >= NUM_PLAYERS THEN FALSE
  ELSE IF pls[i].hand = <<>> /\ tms[pls[i].team].grabbed_pile
          /\ team_has_pure(bd, pls[i].team)
    THEN TRUE
  ELSE PlayerIsOut(i + 1, pls, tms, bd)

\* An is_finished that forgets the team's pile flag.
RECURSIVE PlayerIsOut_IgnoresPileFlag(_, _, _, _)
PlayerIsOut_IgnoresPileFlag(i, pls, tms, bd) ==
  IF i >= NUM_PLAYERS THEN FALSE
  ELSE IF pls[i].hand = <<>> /\ team_has_pure(bd, pls[i].team) THEN TRUE
  ELSE PlayerIsOut_IgnoresPileFlag(i + 1, pls, tms, bd)
is_finished_IgnoresPileFlag(pls, tms, bd) ==
  IF bd.deck = <<>> /\ num_piles_remaining(bd) = 0 THEN TRUE
  ELSE PlayerIsOut_IgnoresPileFlag(0, pls, tms, bd)

is_finished(pls, tms, bd) ==
  IF bd.deck = <<>> /\ num_piles_remaining(bd) = 0 THEN TRUE
  ELSE PlayerIsOut(0, pls, tms, bd)

\* Game._initialize_players
InitialTeams ==
  [t \in 0..(NUM_TEAMS - 1) |->
     [players |-> IF t = RED THEN <<0, 2>> ELSE <<1, 3>>, grabbed_pile |-> FALSE]]
PlayerTeam(i) == IF i \in {0, 2} THEN RED ELSE BLUE

\* Deck.deal_n(n) hands out the n top cards; what is left is Drop(deck, n).
Take(s, n) == SubSeq(s, 1, n)
Drop(s, n) == SubSeq(s, n + 1, Len(s))

\* Game._deal_hands: player i gets the i-th batch of starting cards.
DealtHand(deck, i) ==
  Take(Drop(deck, i * NUM_CARDS_IN_STARTING_HAND), NUM_CARDS_IN_STARTING_HAND)
AfterHands(deck) == Drop(deck, NUM_PLAYERS * NUM_CARDS_IN_STARTING_HAND)

\* Game._initialize_board and _initialize_board_stack
InitialBoard(deck) ==
  LET d0 == AfterHands(deck)
      d1 == Drop(d0, NUM_CARDS_IN_PILE)
      d2 == Drop(d1, NUM_CARDS_IN_PILE) IN
  [deck |-> Tail(d2),
   left_pile |-> Take(d0, NUM_CARDS_IN_PILE),
   right_pile |-> Take(d1, NUM_CARDS_IN_PILE),
   stack |-> <<Head(d2)>>,
   red_team_series |-> <<>>,
   blue_team_series |-> <<>>,
   phase |-> DRAW_PHASE]

\* Game._create_deck: orders DoubleDeck.shuffle() can produce.
Shuffles ==
  { <<51, 52, 53,  61, 62, 71,  61, 62, 63,  71, 72, 21,  JOKER, 72,  63,
      51, 53, 52, 21, JOKER, 54, 54, 73, 73, 81, 82, 83, 81, 82, 83>>,
    <<71, 72, 21,  61, 62, 63,  51, 52, 53,  61, 62, 54,  73, JOKER,  63,
      71, 72, 73, 51, 52, 53, 54, 21, JOKER, 81, 81, 82, 82, 83, 83>> }

\* GameHistory.add(game, action): a snapshot of the game and the action.
Entry(cpi, cti, bd, a, executed) ==
  [current_player_index |-> cpi, current_team_index |-> cti,
   phase |-> bd.phase, action |-> a, is_executed |-> executed]

\* The last API call: whether it raised, whether it asked the player for an
\* action, the action, whether it validated and was executed, and the phase
\* the player's step left on the board.
Result(op, raised, asked, a, valid, executed, phase) ==
  [op |-> op, raised |-> raised, asked |-> asked, action |-> a,
   valid |-> valid, is_executed |-> executed, phase |-> phase]
Returned(op) == Result(op, FALSE, FALSE, NoAction, FALSE, FALSE, "None")

\* The Game object as one record.
Game(init, kh, pls, tms, cpi, cti, bd, hist) ==
  [initialized |-> init, keep_history |-> kh, players |-> pls, teams |-> tms,
   current_player_index |-> cpi, current_team_index |-> cti, board |-> bd,
   history |-> hist]
Self ==
  Game(initialized, keep_history, players, teams, current_player_index,
       current_team_index, board, history)
\* The variables take the fields of the game g.
Becomes(g) ==
  /\ initialized' = g.initialized
  /\ keep_history' = g.keep_history
  /\ players' = g.players
  /\ teams' = g.teams
  /\ current_player_index' = g.current_player_index
  /\ current_team_index' = g.current_team_index
  /\ board' = g.board
  /\ history' = g.history

\* The body of initialize_game.
Initialized(g, deck) ==
  [g EXCEPT
     !.current_player_index = Some(0),
     !.current_team_index = Some(0),
     !.players = Some([i \in 0..(NUM_PLAYERS - 1) |->
                        [hand |-> DealtHand(deck, i), team |-> PlayerTeam(i)]]),
     !.teams = Some(InitialTeams),
     !.board = Some(InitialBoard(deck)),
     !.initialized = TRUE,
     !.history = IF g.keep_history
                   THEN Append(@, Entry(0, 0, InitialBoard(deck), NoAction, FALSE))
                   ELSE @]

\* An initialize_game without its `if not self.initialized` guard.
initialize_game_Unguarded(g, deck) == Initialized(g, deck)

\* Game.initialize_game, with the deck _create_deck returns.
initialize_game(g, deck) ==
  IF ~g.initialized THEN Initialized(g, deck) ELSE g

\* A reset_game that clears the history whatever clear_history says.
reset_game_AlwaysClears(g, initialize, clear_history, deck) ==
  LET cleared == [g EXCEPT
                    !.players = None,
                    !.teams = None,
                    !.current_player_index = None,
                    !.current_team_index = None,
                    !.board = None,
                    !.history = <<>>,
                    !.initialized = FALSE] IN
  IF initialize THEN initialize_game(cleared, deck) ELSE cleared

\* A reset_game that leaves the initialized flag as it is.
reset_game_KeepsInitialized(g, initialize, clear_history, deck) ==
  LET cleared == [g EXCEPT
                    !.players = None,
                    !.teams = None,
                    !.current_player_index = None,
                    !.current_team_index = None,
                    !.board = None,
                    !.history = IF clear_history THEN <<>> ELSE @] IN
  IF initialize THEN initialize_game(cleared, deck) ELSE cleared

\* Game.reset_game
reset_game(g, initialize, clear_history, deck) ==
  LET cleared == [g EXCEPT
                    !.players = None,
                    !.teams = None,
                    !.current_player_index = None,
                    !.current_team_index = None,
                    !.board = None,
                    !.history = IF clear_history THEN <<>> ELSE @,
                    !.initialized = FALSE] IN
  IF initialize THEN initialize_game(cleared, deck) ELSE cleared

\* A _next_player_turn that forgets the team counter.
next_player_turn_KeepsTeam(g) ==
  [g EXCEPT
     !.current_player_index = Some((g.current_player_index[1] + 1) % NUM_PLAYERS),
     !.board = Some([g.board[1] EXCEPT !.phase = DRAW_PHASE])]

\* A _next_player_turn that passes the turn to the player's team mate.
next_player_turn_ToTeamMate(g) ==
  [g EXCEPT
     !.current_player_index = Some((g.current_player_index[1] + 2) % NUM_PLAYERS),
     !.current_team_index = Some((g.current_team_index[1] + 1) % NUM_TEAMS),
     !.board = Some([g.board[1] EXCEPT !.phase = DRAW_PHASE])]

\* Game._next_player_turn
next_player_turn(g) ==
  [g EXCEPT
     !.current_player_index = Some((g.current_player_index[1] + 1) % NUM_PLAYERS),
     !.current_team_index = Some((g.current_team_index[1] + 1) % NUM_TEAMS),
     !.board = Some([g.board[1] EXCEPT !.phase = DRAW_PHASE])]

\* The game after the player's step r, and after the history entry for it.
Played(g, r) ==
  [g EXCEPT !.players = Some(r.players), !.teams = Some(r.teams),
            !.board = Some(r.board)]
Logged(g, a, r) ==
  IF g.keep_history
    THEN [Played(g, r) EXCEPT
            !.history = Append(@, Entry(g.current_player_index[1],
                                        g.current_team_index[1],
                                        r.board, a, r.is_executed))]
    ELSE Played(g, r)

\* The step of the current player of g.
CurrentPlayerStep(g, a, pop_missing) ==
  PlayerStep(a, g.current_player_index[1], g.players[1], g.teams[1], g.board[1],
             pop_missing)

\* A play_single_step that passes the turn on both end-turn phases.
play_action_RotatesOnNoCards(g, a, pop_missing) ==
  LET r == CurrentPlayerStep(g, a, pop_missing) IN
  [step |-> r,
   game |-> IF r.raised THEN Played(g, r)
            ELSE IF r.board.phase \in {END_TURN_PHASE, NO_CARDS_END_TURN_PHASE}
              THEN next_player_turn(Logged(g, a, r))
            ELSE Logged(g, a, r)]

\* A play_single_step that logs only the actions that were executed.
play_action_LogsExecutedOnly(g, a, pop_missing) ==
  LET r == CurrentPlayerStep(g, a, pop_missing) IN
  [step |-> r,
   game |-> IF r.raised THEN Played(g, r)
            ELSE IF r.board.phase = END_TURN_PHASE
              THEN next_player_turn(Logged(g, a, r))
            ELSE IF r.is_executed THEN Logged(g, a, r)
            ELSE Played(g, r)]

\* Game.play_single_step on an initialized, unfinished game, for the action
\* the current player proposes: the player's step, the history entry, and the
\* rotation of the turn.  An exception of the player's step leaves the rest
\* of the method unexecuted.
play_action(g, a, pop_missing) ==
  LET r == CurrentPlayerStep(g, a, pop_missing) IN
  [step |-> r,
   game |-> IF r.raised THEN Played(g, r)
            ELSE IF r.board.phase = END_TURN_PHASE
              THEN next_player_turn(Logged(g, a, r))
            ELSE Logged(g, a, r)]

\* Whether play_single_step asks the current player for an action.
AsksPlayer(g) ==
  g.initialized /\ ~is_finished(g.players[1], g.teams[1], g.board[1])

\* The outcome of a play_single_step that asked the player, and of one that
\* did not.
Asked(out) ==
  [game |-> out.game, raised |-> out.step.raised, asked |-> TRUE, step |-> out.step]
NotAsked(g, raised) ==
  [game |-> g, raised |-> raised, asked |-> FALSE,
   step |-> [valid |-> FALSE, is_executed |-> FALSE, board |-> [phase |-> "None"]]]

\* A play_single_step that returns silently on an uninitialized game.
play_single_step_SilentWhenUninitialized(g, a, pop_missing) ==
  IF ~g.initialized THEN NotAsked(g, FALSE)
  ELSE IF ~is_finished(g.players[1], g.teams[1], g.board[1])
    THEN Asked(play_action(g, a, pop_missing))
  ELSE NotAsked(g, FALSE)

\* A play_single_step that does not look at is_finished.
play_single_step_IgnoresFinished(g, a, pop_missing) ==
  IF ~g.initialized THEN NotAsked(g, TRUE)
  ELSE Asked(play_action(g, a, pop_missing))

\* Game.play_single_step, for the action the current player would propose.
play_single_step(g, a, pop_missing) ==
  IF ~g.initialized THEN NotAsked(g, TRUE)
  ELSE IF ~is_finished(g.players[1], g.teams[1], g.board[1])
    THEN Asked(play_action(g, a, pop_missing))
  ELSE NotAsked(g, FALSE)

\* A _get_team_score that grants the pile bonus to every team.
get_team_score_BonusAlways(team, team_series, opponent_cards) ==
  SeqSum([i \in 1..Len(team_series) |-> get_total_value(team_series[i])])
    + SeqSum([i \in 1..Len(opponent_cards) |-> get_score(opponent_cards[i])])
    + PILE_BONUS

\* Game._get_team_score
get_team_score(team, team_series, opponent_cards) ==
  SeqSum([i \in 1..Len(team_series) |-> get_total_value(team_series[i])])
    + SeqSum([i \in 1..Len(opponent_cards) |-> get_score(opponent_cards[i])])
    + (IF team.grabbed_pile THEN PILE_BONUS ELSE 0)

\* The cards in the hands of a team's players, player after player.
RECURSIVE HandsOf(_, _)
HandsOf(pls, members) ==
  IF members = <<>> THEN <<>>
  ELSE pls[Head(members)].hand \o HandsOf(pls, Tail(members))

\* Game.get_red_team_score and Game.get_blue_team_score
get_red_team_score(g, include_opponent_cards) ==
  LET opponent_cards == IF include_opponent_cards
                          THEN HandsOf(g.players[1], g.teams[1][BLUE].players)
                          ELSE <<>> IN
  get_team_score(g.teams[1][RED], g.board[1].red_team_series, opponent_cards)
get_blue_team_score(g, include_opponent_cards) ==
  LET opponent_cards == IF include_opponent_cards
                          THEN HandsOf(g.players[1], g.teams[1][RED].players)
                          ELSE <<>> IN
  get_team_score(g.teams[1][BLUE], g.board[1].blue_team_series, opponent_cards)

\* A get_state that asks for the scores with the opponents' cards.
get_state_IncludesOpponentCards(g) ==
  [board |-> g.board[1], players |-> g.players[1],
   current_player_index |-> g.current_player_index[1],
   current_team_index |-> g.current_team_index[1],
   red_team_score |-> get_red_team_score(g, TRUE),
   blue_team_score |-> get_blue_team_score(g, TRUE)]

\* Game.get_state
get_state(g) ==
  [board |-> g.board[1], players |-> g.players[1],
   current_player_index |-> g.current_player_index[1],
   current_team_index |-> g.current_team_index[1],
   red_team_score |-> get_red_team_score(g, FALSE),
   blue_team_score |-> get_blue_team_score(g, FALSE)]

\* The series a player may propose to put down, and the proposals of a step.
PutProposals ==
  { <<51, 52, 53>>, <<52, 52, 51>>, <<51, 52, 53, 51>>, <<61, 62, 63>>,
    <<71, 72, 21>>, <<71, 72, JOKER>>, <<51, 61, 71>> }
\* The cards a player may propose to discard: the oldest and the newest card
\* of the hand, and the joker (held or not).
DiscardProposals(hand) ==
  IF hand = <<>> THEN {JOKER} ELSE {Head(hand), hand[Len(hand)], JOKER}
Proposals(player) ==
  {DrawAction, PickupPileAction}
    \cup {DiscardCardAction(c) : c \in DiscardProposals(player.hand)}
    \cup {PutAction(s) : s \in PutProposals}

\* -------------------------------------------------------------- GameRunner
\* The letters of a game id (string.ascii_lowercase, cut down to three) and
\* the ids generate_new_game_id can return: GAME_ID_LENGTH letters, each
\* chosen at random.
Letters == {"a", "b", "c"}
GameIds == [1..GAME_ID_LENGTH -> Letters]
generate_new_game_id == GameIds

\* GameRunner.__init__: no running games.
NoRunner ==
  /\ running_games = [id \in {} |-> 0]
  /\ objects = 0
  /\ started = {}
  /\ got = [op |-> "__init__", game_id |-> <<>>, game |-> None]

\* running_games[game_id] = game, dict.get and del on the dictionary.
start_game(games, game_id, game) ==
  [id \in DOMAIN games \cup {game_id} |-> IF id = game_id THEN game ELSE games[id]]
get_game(games, game_id) ==
  IF game_id \in DOMAIN games THEN Some(games[game_id]) ELSE None
end_game(games, game_id) ==
  IF game_id \in DOMAIN games
    THEN [id \in DOMAIN games \ {game_id} |-> games[id]]
    ELSE games

\* Game.__init__
Init ==
  /\ initialized = FALSE
  /\ keep_history \in BOOLEAN
  /\ players = None
  /\ teams = None
  /\ current_player_index = None
  /\ current_team_index = None
  /\ board = None
  /\ history = <<>>
  /\ last = Returned("__init__")
  /\ calls = MaxCalls
  /\ rejected = MaxRejected
  /\ resets = MaxResets
  /\ inits = MaxInits
  /\ NoRunner

\* A call of Game.initialize_game
InitializeGame ==
  /\ calls > 0
  /\ calls' = calls - 1
  /\ last' = Returned("initialize_game")
  /\ inits > 0
  /\ inits' = inits - 1
  /\ \E deck \in Shuffles : Becomes(initialize_game(Self, deck))
  /\ UNCHANGED <<rejected, resets>>
  /\ UNCHANGED runnerVars

\* The name of a call of reset_game with its two arguments.
ResetOp(initialize, clear_history) ==
  IF initialize
    THEN IF clear_history THEN "reset_game(initialize=True, clear_history=True)"
         ELSE "reset_game(initialize=True, clear_history=False)"
    ELSE IF clear_history THEN "reset_game(initialize=False, clear_history=True)"
         ELSE "reset_game(initialize=False, clear_history=False)"

\* A call of Game.reset_game(initialize, clear_history)
ResetGame ==
  /\ calls > 0
  /\ resets > 0
  /\ calls' = calls - 1
  /\ resets' = resets - 1
  /\ \E initialize \in BOOLEAN, clear_history \in BOOLEAN, deck \in Shuffles :
       /\ last' = Returned(ResetOp(initialize, clear_history))
       /\ Becomes(reset_game(Self, initialize, clear_history, deck))
  /\ UNCHANGED <<rejected, inits>>
  /\ UNCHANGED runnerVars

\* A call of Game.play_single_step
PlaySingleStep ==
  /\ calls > 0
  /\ calls' = calls - 1
  /\ UNCHANGED <<resets, inits>>
  /\ UNCHANGED runnerVars
  /\ \E a \in (IF AsksPlayer(Self)
                 THEN Proposals(players[1][current_player_index[1]])
                 ELSE {NoAction}) :
       \E pop_missing \in (IF a.kind = "put" THEN PopMissing ELSE {"raise"}) :
         LET out == play_single_step(Self, a, pop_missing) IN
         /\ out.asked /\ ~out.step.valid => rejected > 0
         /\ rejected' = IF out.asked /\ ~out.step.valid THEN rejected - 1 ELSE rejected
         /\ last' = Result("play_single_step", out.raised, out.asked, a,
                           out.step.valid, out.step.is_executed, out.step.board.phase)
         /\ Becomes(out.game)

Next == InitializeGame \/ ResetGame \/ PlaySingleStep

Spec == Init /\ [][Next]_vars

\* Whole rounds of turns: a game is initialized once and played with
\* proposals that validate.
InitTurns ==
  /\ initialized = FALSE
  /\ keep_history \in BOOLEAN
  /\ players = None
  /\ teams = None
  /\ current_player_index = None
  /\ current_team_index = None
  /\ board = None
  /\ history = <<>>
  /\ last = Returned("__init__")
  /\ calls = MaxTurnCalls
  /\ rejected = 0
  /\ resets = 0
  /\ inits = 1
  /\ NoRunner

NextTurns == InitializeGame \/ PlaySingleStep

SpecTurns == InitTurns /\ [][NextTurns]_vars

\* ------------------------------------------------------- synthetic boards
\* Positions set up directly on an initialized game, as a test does: the
\* hand of the player to move, the phase, the piles, the teams' series and
\* pile flags are chosen; every card value occurs at most twice.
SampleHands ==
  { <<51, 52, 53, 51>>, <<51, 52, 53, 61, 62>>, <<71, 72, 21, JOKER>>,
    <<71, 72, 21, 61, 62>>, <<83>>, <<>> }
OtherCard(i) == IF i \in {0, 2} THEN 81 ELSE 82
RedSeries == { <<>>, << <<71, 72, 73>> >>, << <<71, 73, 21>> >> }
BlueSeries == { <<>>, << <<61, 62, 63>> >>, << <<61, 63, JOKER>> >> }

\* A position: player cur is to move with the given hand, the players in
\* `out` hold no cards, and the piles not grabbed are on the board if `piles`.
Position(cur, hand, out, grabbed, deck, piles, red, blue, phase) ==
  [players |-> [i \in 0..(NUM_PLAYERS - 1) |->
                 [hand |-> IF i = cur THEN hand
                           ELSE IF i \in out THEN <<>> ELSE <<OtherCard(i)>>,
                  team |-> PlayerTeam(i)]],
   teams |-> [t \in 0..(NUM_TEAMS - 1) |->
                [InitialTeams[t] EXCEPT !.grabbed_pile = grabbed[t + 1]]],
   current_player_index |-> cur,
   board |-> [deck |-> deck,
              left_pile |-> IF piles /\ ~grabbed[RED + 1] THEN <<83>> ELSE <<>>,
              right_pile |-> IF piles /\ ~grabbed[BLUE + 1] THEN <<54>> ELSE <<>>,
              stack |-> <<53>>,
              red_team_series |-> red,
              blue_team_series |-> blue,
              phase |-> phase]]

\* Positions for the validation rules: every hand in every phase.
ValidationPositions ==
  { Position(0, hand, {}, grabbed, <<54>>, TRUE, red, <<>>, phase) :
      hand \in SampleHands, grabbed \in {<<FALSE, FALSE>>, <<TRUE, TRUE>>},
      red \in RedSeries, phase \in GamePhase }
    \cup
  { Position(1, hand, {}, grabbed, <<54>>, TRUE, <<>>, blue, phase) :
      hand \in SampleHands, grabbed \in {<<FALSE, FALSE>>, <<TRUE, TRUE>>},
      blue \in BlueSeries, phase \in {ACTION_PHASE, PLAY_JOKER_PHASE} }

\* Positions for the end of the game: empty decks, piles and hands.
FinishPositions ==
  { Position(0, hand, out, grabbed, deck, piles, red, blue, phase) :
      hand \in {<<51, 52, 53, 51>>, <<>>}, out \in {{}, {2}, {3}},
      grabbed \in {<<FALSE, FALSE>>, <<TRUE, FALSE>>, <<FALSE, TRUE>>, <<TRUE, TRUE>>},
      deck \in {<<>>, <<54>>}, piles \in BOOLEAN,
      red \in {<<>>, << <<71, 72, 73>> >>}, blue \in {<<>>, << <<61, 62, 63>> >>},
      phase \in {DRAW_PHASE, NO_CARDS_END_TURN_PHASE} }

InitBoard ==
  /\ initialized = TRUE
  /\ keep_history \in BOOLEAN
  /\ \E pos \in ValidationPositions \cup FinishPositions :
       /\ players = Some(pos.players)
       /\ teams = Some(pos.teams)
       /\ current_player_index = Some(pos.current_player_index)
       /\ current_team_index = Some(pos.current_player_index % NUM_TEAMS)
       /\ board = Some(pos.board)
  /\ history = <<>>
  /\ last = Returned("__init__")
  /\ calls = MaxBoardCalls
  /\ rejected = MaxRejected
  /\ resets = 0
  /\ inits = 0
  /\ NoRunner

NextBoard == PlaySingleStep

SpecBoard == InitBoard /\ [][NextBoard]_vars

\* Positions for the scores: series and pile flags of both teams, cards in
\* the players' hands, with and without a deck and piles left.
ScorePositions ==
  { Position(0, hand, out, grabbed, deck, piles, red, blue, phase) :
      hand \in {<<51, 52, 53, 51>>, <<71, 72, 21, JOKER>>}, out \in {{}, {3}},
      grabbed \in {<<FALSE, FALSE>>, <<TRUE, FALSE>>, <<FALSE, TRUE>>, <<TRUE, TRUE>>},
      deck \in {<<>>, <<54>>}, piles \in BOOLEAN,
      red \in RedSeries, blue \in BlueSeries,
      phase \in {DRAW_PHASE, ACTION_PHASE} }

InitScores ==
  /\ initialized = TRUE
  /\ keep_history \in BOOLEAN
  /\ \E pos \in ScorePositions :
       /\ players = Some(pos.players)
       /\ teams = Some(pos.teams)
       /\ current_player_index = Some(pos.current_player_index)
       /\ current_team_index = Some(pos.current_player_index % NUM_TEAMS)
       /\ board = Some(pos.board)
  /\ history = <<>>
  /\ last = Returned("__init__")
  /\ calls = MaxScoreCalls
  /\ rejected = 0
  /\ resets = 0
  /\ inits = 0
  /\ NoRunner

NextScores == PlaySingleStep

SpecScores == InitScores /\ [][NextScores]_vars

\* Resets of games in play and of finished games: a step and a reset_game,
\* in either order, from the positions for the end of the game.
InitReset ==
  /\ initialized = TRUE
  /\ keep_history \in BOOLEAN
  /\ \E pos \in FinishPositions :
       /\ players = Some(pos.players)
       /\ teams = Some(pos.teams)
       /\ current_player_index = Some(pos.current_player_index)
       /\ current_team_index = Some(pos.current_player_index % NUM_TEAMS)
       /\ board = Some(pos.board)
  /\ history = <<>>
  /\ last = Returned("__init__")
  /\ calls = MaxResetCalls
  /\ rejected = 0
  /\ resets = MaxResets
  /\ inits = 0
  /\ NoRunner

NextReset == PlaySingleStep \/ ResetGame

SpecReset == InitReset /\ [][NextReset]_vars

\* The registry: games are started, looked up and ended.
\* A call of GameRunner.start_game
StartGame ==
  /\ objects < MaxGames
  /\ \E game_id \in generate_new_game_id :
       LET game == objects + 1 IN
       /\ running_games' = start_game(running_games, game_id, game)
       /\ objects' = game
       /\ started' = started \cup {<<game_id, game>>}
       /\ got' = [op |-> "start_game", game_id |-> game_id, game |-> Some(game)]
  /\ UNCHANGED <<gameVars, last, calls, rejected, resets, inits>>

\* A call of GameRunner.end_game
EndGame ==
  /\ \E game_id \in GameIds :
       /\ running_games' = end_game(running_games, game_id)
       /\ started' = {h \in started : h[1] # game_id}
       /\ got' = [op |-> "end_game", game_id |-> game_id, game |-> None]
  /\ UNCHANGED <<gameVars, last, calls, rejected, resets, inits, objects>>

\* A call of GameRunner.get_game
GetGame ==
  /\ \E game_id \in GameIds :
       got' = [op |-> "get_game", game_id |-> game_id,
               game |-> get_game(running_games, game_id)]
  /\ UNCHANGED <<gameVars, last, calls, rejected, resets, inits,
                 running_games, objects, started>>

InitRunner == Init /\ keep_history = TRUE

NextRunner == StartGame \/ EndGame \/ GetGame

SpecRunner == InitRunner /\ [][NextRunner]_vars

\* ------------------------------------------------------------------ claims
\* The game's parts in the current state (of an initialized game).
Players == players[1]
Teams == teams[1]
TheBoard == board[1]
CurrentPlayer == players[1][current_player_index[1]]

\* The step just taken is a play_single_step that asked the player for an
\* action and returned.
Stepped == last'.op = "play_single_step" /\ last'.asked /\ ~last'.raised
\* The step just taken passed the turn to the next player.
Rotated ==
  /\ current_player_index' = Some((current_player_index[1] + 1) % NUM_PLAYERS)
  /\ current_team_index' = Some((current_team_index[1] + 1) % NUM_TEAMS)
  /\ board'[1].phase = DRAW_PHASE

\* C1 (as stated): a step whose action leaves END_TURN_PHASE or
\* NO_CARDS_END_TURN_PHASE on the board advances the player and team index by
\* one (modulo their counts) and resets the phase to DRAW_PHASE.
C1_EndTurnVariantsRotate ==
  [][Stepped /\ last'.phase \in {END_TURN_PHASE, NO_CARDS_END_TURN_PHASE}
       => Rotated]_vars

\* C1 (amended): a step whose action leaves END_TURN_PHASE advances the player
\* and team index and resets the phase to DRAW_PHASE; a step whose action
\* leaves NO_CARDS_END_TURN_PHASE keeps the player, the team and that phase.
C1_OnlyEndTurnRotates ==
  [][Stepped =>
       /\ last'.phase = END_TURN_PHASE => Rotated
       /\ last'.phase = NO_CARDS_END_TURN_PHASE =>
            /\ UNCHANGED <<current_player_index, current_team_index>>
            /\ board'[1].phase = NO_CARDS_END_TURN_PHASE]_vars

C1_Witness ==
  /\ last.op = "play_single_step" /\ last.is_executed
  /\ last.action.kind = "discard"
  /\ last.phase = NO_CARDS_END_TURN_PHASE
  /\ CurrentPlayer.hand = <<>>

\* All cards of the game, container by container.
RECURSIVE Flatten(_)
Flatten(ss) == IF ss = <<>> THEN <<>> ELSE Head(ss) \o Flatten(Tail(ss))
AllCards ==
  TheBoard.deck \o TheBoard.left_pile \o TheBoard.right_pile \o TheBoard.stack
    \o Players[0].hand \o Players[1].hand \o Players[2].hand \o Players[3].hand
    \o Flatten(TheBoard.red_team_series) \o Flatten(TheBoard.blue_team_series)

\* C2: in every state of an initialized game the cards of the deck, the
\* piles, the stack, the hands and the series are the double deck: every card
\* value occurs exactly twice.
C2_CardConservation ==
  initialized => \A c \in CardValues : Count(AllCards, c) = 2

\* The step just taken proposed an action that validate rejected.
Rejected == last'.op = "play_single_step" /\ last'.asked /\ ~last'.valid

\* C3 (as stated): a step whose proposed action fails validate leaves the
\* whole game, the history log included, as it was.
C3_RejectionChangesNothing == [][Rejected => UNCHANGED gameVars]_vars

\* C3 (amended): a step whose proposed action fails validate leaves the
\* board, the hands, the teams and the player and team index as they were,
\* and logs the rejected action: with keep_history the history gets exactly
\* one entry, the state and the unexecuted action.
C3_RejectionOnlyLogs ==
  [][Rejected =>
       /\ UNCHANGED <<initialized, keep_history, players, teams,
                      current_player_index, current_team_index, board>>
       /\ history' = IF keep_history
                       THEN Append(history,
                                   Entry(current_player_index[1], current_team_index[1],
                                         TheBoard, last'.action, FALSE))
                       ELSE history]_vars

C3_Witness ==
  /\ last.op = "play_single_step" /\ last.asked /\ ~last.valid
  /\ keep_history
  /\ Len(history) >= 2
  /\ history[Len(history)].action = last.action

\* C4: is_finished is true exactly if the deck is empty and no pile remains,
\* or some player has an empty hand while that player's team has grabbed a
\* pile and has a pure series on the board.
C4_IsFinishedIff ==
  initialized =>
    (is_finished(Players, Teams, TheBoard)
       <=> \/ /\ TheBoard.deck = <<>>
              /\ TheBoard.left_pile = <<>> /\ TheBoard.right_pile = <<>>
           \/ \E i \in 0..(NUM_PLAYERS - 1) :
                /\ Players[i].hand = <<>>
                /\ Teams[Players[i].team].grabbed_pile
                /\ \E series \in Range(TeamSeries(TheBoard, Players[i].team)) :
                     \A c \in Range(series) : ~is_joker(c) /\ ~is_wildcard(c))

\* A step found the game finished by a player who is out of cards, while the
\* deck still holds cards and another player with an empty hand has not
\* finished it.
C4_Witness ==
  /\ last.op = "play_single_step" /\ ~last.asked /\ ~last.raised
  /\ TheBoard.deck # <<>>
  /\ \E i \in 0..(NUM_PLAYERS - 1) :
       Players[i].hand = <<>> /\ Teams[Players[i].team].grabbed_pile

\* The checks of PutAction.validate other than the hand-clear gate.
PutOtherChecks(series, player, bd) ==
  /\ bd.phase \in {ACTION_PHASE, PLAY_JOKER_PHASE}
  /\ bd.phase = PLAY_JOKER_PHASE => \E c \in Range(series) : is_joker(c)
  /\ \A c \in Range(series) : Contains(player.hand, c)
  /\ is_valid(series)

\* C5: a Put that would leave the player at most one card is rejected when
\* player_may_clear_hand is false for it; a Put that leaves two or more cards
\* is accepted or rejected by the other checks alone.
C5_HandClearGate ==
  initialized =>
    \A series \in PutProposals :
      LET left == Len(CurrentPlayer.hand) - Len(series)
          may == player_may_clear_hand(TheBoard, Teams, CurrentPlayer, series)
          ok == PutValidate(series, CurrentPlayer, TheBoard, Teams) IN
      /\ left <= 1 /\ ~may => ~ok
      /\ left >= 2 => (ok <=> PutOtherChecks(series, CurrentPlayer, TheBoard))

\* A Put that passes every other check was rejected by the gate.
C5_Witness ==
  /\ last.op = "play_single_step" /\ last.asked /\ ~last.valid
  /\ last.action.kind = "put"
  /\ PutOtherChecks(last.action.series, CurrentPlayer, TheBoard)
  /\ Len(CurrentPlayer.hand) - Len(last.action.series) = 1
  /\ ~player_may_clear_hand(TheBoard, Teams, CurrentPlayer, last.action.series)

\* No Discard validates outside ACTION_PHASE and no Put outside ACTION_PHASE
\* and PLAY_JOKER_PHASE, whatever the card or the series.
PhaseLegal ==
  initialized =>
    /\ TheBoard.phase # ACTION_PHASE =>
         \A c \in CardValues : ~DiscardValidate(c, CurrentPlayer, TheBoard)
    /\ TheBoard.phase \notin {ACTION_PHASE, PLAY_JOKER_PHASE} =>
         \A series \in PutProposals :
           ~PutValidate(series, CurrentPlayer, TheBoard, Teams)

\* C6: validate is false in every phase outside the action's legal phases,
\* and every executed Discard started in ACTION_PHASE, every executed Put in
\* ACTION_PHASE or PLAY_JOKER_PHASE.
C6_PhaseLegality ==
  [][/\ PhaseLegal
     /\ PhaseLegal'
     /\ last'.is_executed /\ last'.action.kind = "discard"
          => TheBoard.phase = ACTION_PHASE
     /\ last'.is_executed /\ last'.action.kind = "put"
          => TheBoard.phase \in {ACTION_PHASE, PLAY_JOKER_PHASE}]_vars

\* A Discard of a card the player holds was rejected outside ACTION_PHASE.
C6_Witness ==
  /\ last.op = "play_single_step" /\ last.asked /\ ~last.valid
  /\ last.action.kind = "discard"
  /\ Contains(CurrentPlayer.hand, last.action.card)
  /\ TheBoard.phase \in {DRAW_PHASE, END_TURN_PHASE, NO_CARDS_PHASE, FINISHED_PHASE}

\* The history entries logged by steps that ended a turn (the snapshot is
\* taken before the turn rotates), and the player and team index after the
\* step of entry i: those of the next snapshot, or the current ones.
EndTurnEntries == {i \in 1..Len(history) : history[i].phase = END_TURN_PHASE}
IndicesAt(i) == <<history[i].current_player_index, history[i].current_team_index>>
IndicesAfter(i) ==
  IF i < Len(history) THEN IndicesAt(i + 1)
  ELSE <<current_player_index[1], current_team_index[1]>>
EndTurnsBetween(i, j) == Cardinality({k \in EndTurnEntries : i <= k /\ k <= j})

\* C7: after every step that ends a turn the team index has alternated, and
\* after NUM_PLAYERS = 4 consecutive turn-ending steps the player index and
\* the team index are back at the values they had before the first of them.
C7_TurnRotationCyclic ==
  initialized /\ keep_history =>
    /\ \A i \in EndTurnEntries :
         /\ IndicesAfter(i)[2] # IndicesAt(i)[2]
         /\ IndicesAfter(i)[1] # IndicesAt(i)[1]
    /\ \A i, j \in EndTurnEntries :
         EndTurnsBetween(i, j) = NUM_PLAYERS => IndicesAfter(j) = IndicesAt(i)

\* Four turns have ended and the first player is to move again.
C7_Witness ==
  /\ initialized /\ keep_history
  /\ Cardinality(EndTurnEntries) = NUM_PLAYERS
  /\ history[Len(history)].phase = END_TURN_PHASE
  /\ current_player_index = Some(0) /\ current_team_index = Some(0)

\* C8: play_single_step on a game that is not initialized raises and leaves
\* the game as it was, uninitialized.
C8_UninitializedStepFails ==
  [][~initialized /\ last'.op = "play_single_step"
       => last'.raised /\ ~initialized' /\ UNCHANGED gameVars]_vars

\* A step raised on a game that reset_game(initialize=False) had cleared.
C8_Witness ==
  /\ last.op = "play_single_step" /\ last.raised /\ ~initialized
  /\ resets < MaxResets
  /\ players = None /\ board = None

\* C9: initialize_game on an initialized game changes nothing and logs nothing.
C9_InitializeIdempotent ==
  [][initialized /\ last'.op = "initialize_game" => UNCHANGED gameVars]_vars

\* initialize_game was called in the middle of a turn.
C9_Witness ==
  /\ last.op = "initialize_game" /\ initialized
  /\ TheBoard.phase = ACTION_PHASE
  /\ Len(CurrentPlayer.hand) > NUM_CARDS_IN_STARTING_HAND

\* C10: play_single_step on a finished game does not ask the player for an
\* action and changes nothing: no history entry, no rotation, the same board,
\* hands and phase.
C10_FinishedStepIsNoOp ==
  [][(initialized /\ is_finished(Players, Teams, TheBoard)
        /\ last'.op = "play_single_step")
       => (~last'.asked /\ ~last'.raised /\ UNCHANGED gameVars)]_vars

\* A step returned without asking on a game a player had finished by
\* discarding the last card.
C10_Witness ==
  /\ last.op = "play_single_step" /\ ~last.asked /\ ~last.raised
  /\ initialized
  /\ TheBoard.phase = NO_CARDS_END_TURN_PHASE
  /\ TheBoard.deck # <<>>

\* The step just taken executed a Discard, or a Put.
DiscardExecuted ==
  last'.op = "play_single_step" /\ last'.is_executed /\ last'.action.kind = "discard"
PutExecuted ==
  last'.op = "play_single_step" /\ last'.is_executed /\ last'.action.kind = "put"

\* C11: an executed Discard starts in ACTION_PHASE, takes exactly one copy of
\* the chosen card out of the acting player's hand and puts it on top of the
\* stack; the deck, the piles, the series and the other hands stay as they
\* were; the phase it leaves is NO_CARDS_END_TURN_PHASE if the hand is then
\* empty and END_TURN_PHASE otherwise.
C11_DiscardEffect ==
  [][DiscardExecuted =>
       LET i == current_player_index[1]
           card == last'.action.card
           before == Players[i].hand
           after == players'[1][i].hand IN
       /\ TheBoard.phase = ACTION_PHASE
       /\ Len(after) = Len(before) - 1
       /\ \A c \in CardValues :
            Count(after, c) = Count(before, c) - (IF c = card THEN 1 ELSE 0)
       /\ board'[1].stack = Append(TheBoard.stack, card)
       /\ board'[1].deck = TheBoard.deck
       /\ board'[1].left_pile = TheBoard.left_pile
       /\ board'[1].right_pile = TheBoard.right_pile
       /\ board'[1].red_team_series = TheBoard.red_team_series
       /\ board'[1].blue_team_series = TheBoard.blue_team_series
       /\ \A j \in 0..(NUM_PLAYERS - 1) : j # i => players'[1][j] = Players[j]
       /\ teams' = teams
       /\ last'.phase = IF after = <<>> THEN NO_CARDS_END_TURN_PHASE
                        ELSE END_TURN_PHASE]_vars

\* A player who held two copies of a card discarded one of them: the other
\* is still in the hand, the discarded one is on top of the stack, and the
\* turn has passed on.
C11_Witness ==
  /\ last.op = "play_single_step" /\ last.is_executed
  /\ last.action.kind = "discard"
  /\ last.phase = END_TURN_PHASE
  /\ Contains(Players[(current_player_index[1] + NUM_PLAYERS - 1) % NUM_PLAYERS].hand,
              last.action.card)
  /\ TheBoard.stack[Len(TheBoard.stack)] = last.action.card
  /\ Len(TheBoard.stack) >= 2

\* C12: an executed Put leaves NO_CARDS_PHASE if the hand is then empty and
\* ACTION_PHASE otherwise, never an end-turn phase, and the step that played
\* it keeps the current player and the current team.
C12_PutKeepsTurn ==
  [][PutExecuted =>
       LET after == players'[1][current_player_index[1]].hand IN
       /\ last'.phase = IF after = <<>> THEN NO_CARDS_PHASE ELSE ACTION_PHASE
       /\ last'.phase \notin {END_TURN_PHASE, NO_CARDS_END_TURN_PHASE}
       /\ board'[1].phase = last'.phase
       /\ UNCHANGED <<current_player_index, current_team_index>>]_vars

\* A Put laid down the whole hand.
C12_Witness ==
  /\ last.op = "play_single_step" /\ last.is_executed
  /\ last.action.kind = "put"
  /\ CurrentPlayer.hand = <<>>
  /\ TheBoard.phase = NO_CARDS_PHASE
  /\ Len(get_series_for_player(TheBoard, CurrentPlayer)) >= 1

\* The series holds a joker.
HasJoker(series) == \E c \in Range(series) : is_joker(c)
\* The pile flags a pair of teams can have.
PileFlags ==
  { [t \in 0..(NUM_TEAMS - 1) |-> [InitialTeams[t] EXCEPT !.grabbed_pile = flags[t + 1]]] :
      flags \in {<<FALSE, FALSE>>, <<TRUE, FALSE>>, <<FALSE, TRUE>>, <<TRUE, TRUE>>} }

\* C13: in PLAY_JOKER_PHASE validate rejects every Put whose series holds no
\* joker, whatever the hand and the teams' pile flags; in ACTION_PHASE a Put
\* is accepted exactly if the hand-clear gate, the cards-in-hand check and
\* the series' validity allow it, with or without a joker.
C13_PlayJokerNeedsJoker ==
  initialized =>
    \A series \in PutProposals :
      /\ TheBoard.phase = PLAY_JOKER_PHASE /\ ~HasJoker(series) =>
           \A hand \in SampleHands \cup {CurrentPlayer.hand}, tms \in PileFlags \cup {Teams} :
             ~PutValidate(series, [CurrentPlayer EXCEPT !.hand = hand], TheBoard, tms)
      /\ TheBoard.phase = ACTION_PHASE =>
           (PutValidate(series, CurrentPlayer, TheBoard, Teams)
              <=> /\ ~(/\ Len(CurrentPlayer.hand) - Len(series) <= 1
                       /\ ~player_may_clear_hand(TheBoard, Teams, CurrentPlayer, series))
                  /\ \A c \in Range(series) : Contains(CurrentPlayer.hand, c)
                  /\ is_valid(series))

\* A step in PLAY_JOKER_PHASE rejected a Put without a joker that the same
\* player could have played on the same board in ACTION_PHASE.
C13_Witness ==
  /\ last.op = "play_single_step" /\ last.asked /\ ~last.valid
  /\ last.action.kind = "put"
  /\ TheBoard.phase = PLAY_JOKER_PHASE
  /\ ~HasJoker(last.action.series)
  /\ PutValidate(last.action.series, CurrentPlayer,
                 [TheBoard EXCEPT !.phase = ACTION_PHASE], Teams)

\* The history after the call is the history before it and one more entry.
Appended ==
  /\ Len(history') = Len(history) + 1
  /\ SubSeq(history', 1, Len(history)) = history
\* The history before the call is still there after it, entry by entry.
Kept ==
  /\ Len(history') >= Len(history)
  /\ SubSeq(history', 1, Len(history)) = history

RECURSIVE Sum(_, _)
Sum(f, S) ==
  IF S = {} THEN 0
  ELSE LET x == CHOOSE y \in S : TRUE IN f[x] + Sum(f, S \ {x})

\* The score of a team, with or without the opponents' cards.
TeamScore(team, include_opponent_cards) ==
  IF team = RED THEN get_red_team_score(Self, include_opponent_cards)
  ELSE get_blue_team_score(Self, include_opponent_cards)

\* C15: a team's score is the total value of its series, plus the scores of
\* the cards in the opposing players' hands when include_opponent_cards is
\* true, plus 100 exactly if the team has grabbed a pile, and nothing else,
\* whether or not the deck and the piles are exhausted.
C15_TeamScore ==
  initialized =>
    \A team \in {RED, BLUE}, include_opponent_cards \in BOOLEAN :
      LET series == TeamSeries(TheBoard, team)
          opponents == {i \in 0..(NUM_PLAYERS - 1) : Players[i].team # team}
          cards(i) == Sum([c \in CardValues |-> get_score(c) * Count(Players[i].hand, c)],
                          CardValues) IN
      TeamScore(team, include_opponent_cards)
        = Sum([i \in 1..Len(series) |-> get_total_value(series[i])], 1..Len(series))
          + (IF include_opponent_cards
               THEN Sum([i \in opponents |-> cards(i)], opponents) ELSE 0)
          + (IF Teams[team].grabbed_pile THEN 100 ELSE 0)

\* A game finished by exhausting the deck and the piles, in which the red
\* team has series and a grabbed pile and the blue players hold cards.
C15_Witness ==
  /\ initialized /\ last.op = "play_single_step"
  /\ TheBoard.deck = <<>> /\ num_piles_remaining(TheBoard) = 0
  /\ Teams[RED].grabbed_pile /\ ~Teams[BLUE].grabbed_pile
  /\ TheBoard.red_team_series # <<>>
  /\ TeamScore(RED, TRUE) > TeamScore(RED, FALSE)
  /\ TeamScore(RED, FALSE) > 100

\* The game with the hand of every player in `who` replaced by `hand`.
WithHands(g, who, hand) ==
  [g EXCEPT !.players =
     Some([i \in 0..(NUM_PLAYERS - 1) |->
            IF i \in who THEN [g.players[1][i] EXCEPT !.hand = hand]
            ELSE g.players[1][i]])]

\* C16: the two scores in the GameState are the same for every game that
\* has the same series and pile flags, whatever cards the players hold.
C16_StateScoresIgnoreHands ==
  initialized =>
    \A who \in {{0}, {1}, {2}, {3}, {0, 2}, {1, 3}, 0..(NUM_PLAYERS - 1)},
       hand \in SampleHands :
      LET other == get_state(WithHands(Self, who, hand)) IN
      /\ other.red_team_score = get_state(Self).red_team_score
      /\ other.blue_team_score = get_state(Self).blue_team_score

\* A step laid down a series while the players of both teams hold cards
\* that count in the full scores.
C16_Witness ==
  /\ initialized /\ last.op = "play_single_step" /\ last.is_executed
  /\ last.action.kind = "put"
  /\ get_state(Self).red_team_score + get_state(Self).blue_team_score > 0
  /\ TeamScore(RED, TRUE) # get_state(Self).red_team_score
  /\ TeamScore(BLUE, TRUE) # get_state(Self).blue_team_score

\* C17: a Put that passed validate finds every card of its series in the
\* hand, copy for copy; executing it returns normally, takes Len(series)
\* cards out of the acting player's hand, appends the series to that
\* player's team's series, and leaves the other team's series, the deck,
\* the piles, the stack and the other hands as they were.
C17_ValidatedPutExecutesExactly ==
  [][last'.op = "play_single_step" /\ last'.asked /\ last'.valid
       /\ last'.action.kind = "put" =>
       LET i == current_player_index[1]
           series == last'.action.series
           team == Players[i].team IN
       /\ \A c \in CardValues : Count(Players[i].hand, c) >= Count(series, c)
       /\ ~last'.raised /\ last'.is_executed
       /\ Len(players'[1][i].hand) = Len(Players[i].hand) - Len(series)
       /\ TeamSeries(board'[1], team) = Append(TeamSeries(TheBoard, team), series)
       /\ TeamSeries(board'[1], 1 - team) = TeamSeries(TheBoard, 1 - team)
       /\ board'[1].deck = TheBoard.deck
       /\ board'[1].left_pile = TheBoard.left_pile
       /\ board'[1].right_pile = TheBoard.right_pile
       /\ board'[1].stack = TheBoard.stack
       /\ \A j \in 0..(NUM_PLAYERS - 1) : j # i => players'[1][j] = Players[j]]_vars

\* C18: in an initialized game the current team index is the current player
\* index modulo 2 and the current player belongs to the current team:
\* players 0 and 2 to the red team (index 0), players 1 and 3 to the blue
\* team (index 1).
C18_TeamFollowsPlayer ==
  initialized =>
    /\ current_team_index[1] = current_player_index[1] % 2
    /\ CurrentPlayer.team = current_team_index[1]
    /\ current_player_index[1] \in Range(Teams[current_team_index[1]].players)
    /\ Range(Teams[RED].players) = {0, 2}
    /\ Range(Teams[BLUE].players) = {1, 3}

\* Three turns have ended: the last player, of the blue team, is to move.
C18_Witness ==
  /\ initialized /\ last.op = "play_single_step" /\ last.phase = END_TURN_PHASE
  /\ current_player_index = Some(NUM_PLAYERS - 1)
  /\ current_team_index = Some(BLUE)

\* C19: reset_game(initialize=True) leaves an initialized game with player
\* and team index 0, the phase DRAW_PHASE, one card on the stack, the
\* starting number of cards in every hand and no series; with
\* clear_history=True and keep_history the history is the one entry of the
\* initialization.
C19_ResetStartsFreshGame ==
  [][last'.op \in {ResetOp(TRUE, TRUE), ResetOp(TRUE, FALSE)} =>
       /\ initialized'
       /\ players' # None /\ teams' # None /\ board' # None
       /\ current_player_index' = Some(0)
       /\ current_team_index' = Some(0)
       /\ board'[1].phase = DRAW_PHASE
       /\ Len(board'[1].stack) = 1
       /\ \A i \in 0..(NUM_PLAYERS - 1) :
            Len(players'[1][i].hand) = NUM_CARDS_IN_STARTING_HAND
       /\ board'[1].red_team_series = <<>>
       /\ board'[1].blue_team_series = <<>>
       /\ last'.op = ResetOp(TRUE, TRUE) /\ keep_history
            => Len(history') = 1 /\ history'[1].action = NoAction]_vars

\* reset_game(initialize=True) was called on a finished game: the step
\* before it logged nothing, and the log holds the entry of the new game.
C19_Witness ==
  /\ last.op = ResetOp(TRUE, FALSE)
  /\ initialized /\ keep_history
  /\ calls = MaxResetCalls - 2
  /\ Len(history) = 1
  /\ TheBoard.phase = DRAW_PHASE

\* C20: start_game registers the new game under an id no running game has;
\* every game start_game returned and end_game did not end is what get_game
\* returns under its id; end_game changes what get_game returns for the
\* named id only, and nothing for an id that is not registered.
C20_RegistryIndependence ==
  [][/\ got'.op = "start_game" => got'.game_id \notin DOMAIN running_games
     /\ \A h \in started' : get_game(running_games', h[1]) = Some(h[2])
     /\ got'.op = "end_game" =>
          /\ \A id \in GameIds \ {got'.game_id} :
               get_game(running_games', id) = get_game(running_games, id)
          /\ got'.game_id \notin DOMAIN running_games
               => running_games' = running_games]_vars

====
